---------------------------- MODULE Spec2Model ----------------------------
(***************************************************************************)
(* A model of the craigslist scraper: the selector chain of                *)
(* craigslist.get_listing_urls, the fetch loop of                          *)
(* craigslist.scrape_search_results, GeminiEvaluator.evaluate, the         *)
(* evaluation loop of scraper.scrape_product, scraper.print_results and    *)
(* the product loop of scraper.main.                                       *)
(*                                                                         *)
(* Python values.  An optional text (a str or None) is a record            *)
(* [some, text]; a text is a sequence of strings.  Texts that the code     *)
(* scans character by character (an evaluator response) are sequences of   *)
(* one-character strings; texts the code only stores or tests for          *)
(* emptiness (a title, an exception message) are written as one chunk.     *)
(***************************************************************************)
EXTENDS Integers, Sequences, FiniteSets, TLC

VARIABLES
    \* ---- scraper.main / scrape_product / scrape_search_results ----
    pc,              \* position of the single thread of control
    fault,           \* the exception that ended the run, "none" while running
    evaluator,       \* TRUE: a GeminiEvaluator, FALSE: None (--no-eval)
    p,               \* index of the product main's loop is at
    listing_urls,    \* scrape_search_results: listing_urls
    listings,        \* scrape_search_results / scrape_product: listings
    i,               \* the running loop's index (1-based position)
    log,             \* the current product's external calls, in order
    fetch_failed,    \* positions of the current product whose get_page raised
    replies,         \* what the evaluator capability answered, per position
    searched,        \* products whose search page was requested
    search_failed,   \* products whose search page fetch raised
    results,         \* main: results
    r,               \* print_results: index of the result being printed
    total_listings,  \* print_results: total_listings
    total_matches,   \* print_results: total_matches
    printed,         \* print_results: the matches printed, in order
    \* ---- GeminiEvaluator.evaluate called on its own ----
    ev_listing, ev_reply, ev_out,
    \* ---- craigslist.get_listing_urls called on its own ----
    soup, urls

pipeVars == <<pc, fault, evaluator, p, listing_urls, listings, i, log,
              fetch_failed, replies, searched, search_failed, results, r,
              total_listings, total_matches, printed>>
evalVars == <<ev_listing, ev_reply, ev_out>>
urlVars == <<soup, urls>>
vars == <<pipeVars, evalVars, urlVars>>

----------------------------------------------------------------------------
(* Optional texts *)

None == [some |-> FALSE, text |-> <<>>]

Str(t) == [some |-> TRUE, text |-> t]

\* Python truthiness of an optional text: None and "" are falsy.
Truthy(x) == x.some /\ x.text # <<>>

----------------------------------------------------------------------------
(* str methods used by evaluate, on sequences of one-character strings *)

Whitespace == {" ", "\n"}

\* The backquote character, which a TLA+ string cannot hold.
Backquote == "bq"

Fence == <<Backquote, Backquote, Backquote>>

JsonTag == <<"j", "s", "o", "n">>

StartsWith(s, prefix) ==
    /\ Len(s) >= Len(prefix)
    /\ SubSeq(s, 1, Len(prefix)) = prefix

RECURSIVE LStrip(_)
LStrip(s) ==
    IF s # <<>> /\ Head(s) \in Whitespace THEN LStrip(Tail(s)) ELSE s

RECURSIVE RStrip(_)
RStrip(s) ==
    IF s # <<>> /\ s[Len(s)] \in Whitespace
    THEN RStrip(SubSeq(s, 1, Len(s) - 1))
    ELSE s

Strip(s) == RStrip(LStrip(s))

\* The positions at which sep occurs in s.
Occurrences(s, sep) ==
    {k \in 1..(Len(s) - Len(sep) + 1) : SubSeq(s, k, k + Len(sep) - 1) = sep}

\* str.split(sep): the pieces between the occurrences of sep, scanning from
\* the left without overlap.
RECURSIVE Split(_, _)
Split(s, sep) ==
    IF Occurrences(s, sep) = {}
    THEN <<s>>
    ELSE LET k == CHOOSE n \in Occurrences(s, sep) :
                      \A m \in Occurrences(s, sep) : n <= m
         IN <<SubSeq(s, 1, k - 1)>>
                \o Split(SubSeq(s, k + Len(sep), Len(s)), sep)

----------------------------------------------------------------------------
(* JSON *)

Confidences == {"high", "medium", "low"}

ConfidenceChars(c) ==
    CASE c = "high" -> <<"h", "i", "g", "h">>
      [] c = "medium" -> <<"m", "e", "d", "i", "u", "m">>
      [] c = "low" -> <<"l", "o", "w">>

\* The reason texts evaluator answers carry; the last one quotes a fence.
Reasons == { <<"o", "k">>, <<"n", "o">>, <<"a", Backquote, Backquote, Backquote, "b">> }

\* A verdict: the dict json.loads builds from the expected object.
Verdict(m, c, rsn) ==
    [kind |-> "dict", is_match |-> m, confidence |-> c, reason |-> rsn]

Verdicts == {Verdict(m, c, rsn) : m \in BOOLEAN, c \in Confidences, rsn \in Reasons}

\* json.loads results that are not a dict: the list of [] and the int of 42.
JsonList == [kind |-> "list"]

JsonInt == [kind |-> "int"]

JsonValues == Verdicts \cup {JsonList, JsonInt}

Quoted(t) == <<"\"">> \o t \o <<"\"">>

KeyIsMatch == <<"i", "s", "_", "m", "a", "t", "c", "h">>

KeyConfidence == <<"c", "o", "n", "f", "i", "d", "e", "n", "c", "e">>

KeyReason == <<"r", "e", "a", "s", "o", "n">>

BoolChars(b) == IF b THEN <<"t", "r", "u", "e">> ELSE <<"f", "a", "l", "s", "e">>

\* The JSON document of a value, as the prompt asks the evaluator to write
\* it: {"is_match": true, "confidence": "high", "reason": "ok"}.
JsonDumps(v) ==
    CASE v.kind = "dict" ->
            <<"{">> \o Quoted(KeyIsMatch) \o <<":", " ">> \o BoolChars(v.is_match)
                \o <<",", " ">> \o Quoted(KeyConfidence) \o <<":", " ">>
                \o Quoted(ConfidenceChars(v.confidence))
                \o <<",", " ">> \o Quoted(KeyReason) \o <<":", " ">>
                \o Quoted(v.reason) \o <<"}">>
      [] v.kind = "list" -> <<"[", "]">>
      [] v.kind = "int" -> <<"4", "2">>

JSONDecodeError == [kind |-> "JSONDecodeError"]

\* json.loads: the value whose document the text is, surrounding whitespace
\* ignored; JSONDecodeError for a text that is the document of no value.
JsonLoads(text) ==
    LET t == Strip(text)
    IN IF \E v \in JsonValues : JsonDumps(v) = t
       THEN CHOOSE v \in JsonValues : JsonDumps(v) = t
       ELSE JSONDecodeError

----------------------------------------------------------------------------
(* GeminiEvaluator.evaluate *)

NoTextReason == <<"No title or description available">>

EvaluationErrorPrefix == <<"Evaluation error: ">>

\* The message of the exception json.loads raises.
JsonErrorMessage == <<"Expecting value">>

\* What the evaluator capability does when asked: it raises, or it answers
\* with a text.
Raises(msg) == [kind |-> "raise", msg |-> msg, text |-> <<>>]

Answers(text) == [kind |-> "text", msg |-> <<>>, text |-> text]

\* The test written as `title is None and description is None`.
HasNoText_IsNone(title, description) == ~title.some /\ ~description.some

\* `not title and not description`
HasNoText(title, description) == ~Truthy(title) /\ ~Truthy(description)

\* The branch taken when the stripped response starts with a fence: the
\* piece after the opening fence, less a leading "json", stripped.
Unfence(response_text) ==
    LET inner == Split(response_text, Fence)[2]
    IN Strip(IF StartsWith(inner, JsonTag)
             THEN SubSeq(inner, Len(JsonTag) + 1, Len(inner))
             ELSE inner)

\* response.text.strip(), then the markdown code block handling.
ResponseText(text) ==
    LET response_text == Strip(text)
    IN IF StartsWith(response_text, Fence)
       THEN Unfence(response_text)
       ELSE response_text

\* The dict the except branch returns.
EvaluationError(cause) == Verdict(FALSE, "low", EvaluationErrorPrefix \o cause)

\* evaluate(product_name, criteria, listing) when the evaluator capability
\* reacts with `reply`: the value returned and the number of calls made to
\* the capability.
evaluate(listing, reply) ==
    IF HasNoText(listing.title, listing.description)
    THEN [value |-> Verdict(FALSE, "high", NoTextReason), calls |-> 0]
    ELSE [calls |-> 1,
          value |->
            IF reply.kind = "raise"
            THEN EvaluationError(reply.msg)
            ELSE LET parsed == JsonLoads(ResponseText(reply.text))
                 IN IF parsed = JSONDecodeError
                    THEN EvaluationError(JsonErrorMessage)
                    ELSE parsed]

----------------------------------------------------------------------------
(* evaluate called on its own, on every listing and every reply *)

OptionalTexts == {None, Str(<<>>), Str(<<"Leica M6">>)}

EvListings ==
    [title : OptionalTexts, description : OptionalTexts, price : {None, Str(<<"$1">>)}]

LanguageTags == {<<>>, JsonTag, <<"J", "S", "O", "N">>}

\* A reply that wraps the document of v in a fenced block with a tag.
Fenced(tag, v) == Fence \o tag \o <<"\n">> \o JsonDumps(v) \o <<"\n">> \o Fence

NotJson == <<"S", "o", "r", "r", "y">>

EvReplies ==
    {Raises(<<"503 UNAVAILABLE">>), Answers(NotJson)}
        \cup {Answers(JsonDumps(v)) : v \in JsonValues}
        \cup {Answers(Fenced(tag, v)) : tag \in LanguageTags, v \in JsonValues}

NotCalled == [calls |-> 0, value |-> [kind |-> "absent"]]

----------------------------------------------------------------------------
(* craigslist.get_listing_urls *)

\* A URL is an origin and a path; a listing's path is its numeric id, and the
\* path 0 is the empty path.  The href of an anchor is absent (None), empty,
\* relative (no origin) or absolute.
BASE_URL == "https://sfbay.craigslist.org"

NoHref == [some |-> FALSE, origin |-> "", path |-> 0]

EmptyHref == [some |-> TRUE, origin |-> "", path |-> 0]

RelativeHref(id) == [some |-> TRUE, origin |-> "", path |-> id]

AbsoluteHref(origin, id) == [some |-> TRUE, origin |-> origin, path |-> id]

\* `if href:`
HrefTruthy(href) == href.some /\ (href.origin # "" \/ href.path # 0)

\* build_search_url: the search page of the site.
build_search_url == [origin |-> BASE_URL, path |-> 0]

\* urllib.parse.urljoin(base_url, href) for the hrefs above.
urljoin(base_url, href) ==
    IF href.origin # ""
    THEN [origin |-> href.origin, path |-> href.path]
    ELSE [origin |-> base_url.origin, path |-> href.path]

\* The loop over the anchors a selector matched.
RECURSIVE AppendHrefs(_, _, _)
AppendHrefs(urls_, links, base_url) ==
    IF links = <<>>
    THEN urls_
    ELSE AppendHrefs(IF HrefTruthy(Head(links))
                     THEN Append(urls_, urljoin(base_url, Head(links)))
                     ELSE urls_,
                     Tail(links), base_url)

\* A results page is what each layout's selector matches on it: the hrefs of
\* the anchors, in document order.
get_listing_urls(page, base_url) ==
    IF page.modern # <<>>
    THEN AppendHrefs(<<>>, page.modern, base_url)
    ELSE IF page.gallery # <<>>
         THEN AppendHrefs(<<>>, page.gallery, base_url)
         ELSE IF page.legacy # <<>>
              THEN AppendHrefs(<<>>, page.legacy, base_url)
              ELSE <<>>

----------------------------------------------------------------------------
(* craigslist.get_listing_details *)

\* A listing page is the stripped text of each element the selectors look
\* for, None when the element is missing.
get_listing_details(page) ==
    [title |-> IF page.titletextonly.some
               THEN page.titletextonly
               ELSE IF page.postingtitle.some THEN page.postingtitle ELSE None,
     description |-> page.postingbody,
     price |-> page.price]

----------------------------------------------------------------------------
(* The values the three groups of variables hold while another runs *)

NotRun == [done |-> FALSE, value |-> <<>>]

EmptyPage == [modern |-> <<>>, gallery |-> <<>>, legacy |-> <<>>]

PipeIdle ==
    /\ pc = "idle" /\ fault = "none" /\ evaluator = FALSE /\ p = 0
    /\ listing_urls = <<>> /\ listings = <<>> /\ i = 0 /\ log = <<>>
    /\ fetch_failed = {} /\ replies = <<>> /\ searched = {}
    /\ search_failed = {} /\ results = <<>> /\ r = 0
    /\ total_listings = 0 /\ total_matches = 0 /\ printed = <<>>

EvalIdle ==
    /\ ev_listing = [title |-> None, description |-> None, price |-> None]
    /\ ev_reply = Raises(<<>>)
    /\ ev_out = NotCalled

UrlIdle == soup = EmptyPage /\ urls = NotRun

----------------------------------------------------------------------------
(* evaluate called on its own *)

InitEvaluate ==
    /\ ev_listing \in EvListings
    /\ ev_reply \in EvReplies
    /\ ev_out = NotCalled
    /\ PipeIdle /\ UrlIdle

Evaluate ==
    /\ ev_out = NotCalled
    /\ ev_out' = evaluate(ev_listing, ev_reply)
    /\ UNCHANGED <<ev_listing, ev_reply, pipeVars, urlVars>>

SpecEvaluate == InitEvaluate /\ [][Evaluate]_vars

----------------------------------------------------------------------------
(* get_listing_urls called on its own *)

MaxAnchors == 2

Hrefs == {NoHref, EmptyHref, RelativeHref(1), AbsoluteHref("https://seattle.craigslist.org", 2)}

AnchorLists == UNION {[1..n -> Hrefs] : n \in 0..MaxAnchors}

Soups == [modern : AnchorLists, gallery : AnchorLists, legacy : AnchorLists]

InitListingUrls ==
    /\ soup \in Soups
    /\ urls = NotRun
    /\ PipeIdle /\ EvalIdle

GetListingUrls ==
    /\ ~urls.done
    /\ urls' = [done |-> TRUE, value |-> get_listing_urls(soup, build_search_url)]
    /\ UNCHANGED <<soup, pipeVars, evalVars>>

SpecListingUrls == InitListingUrls /\ [][GetListingUrls]_vars

----------------------------------------------------------------------------
(* scraper.main: the run over the configured products *)

\* config["products"]
Products ==
    << [name |-> "Leica M6", search_term |-> "leica m6"],
       [name |-> "Nikon FM2", search_term |-> "nikon fm2"] >>

\* --delay, by default
Delay == 1

\* time.sleep(2) between Gemini API calls
EvalDelay == 2

\* The most listing anchors a results page of the run holds.
MaxUrls == 2

\* The results pages a search may load: the modern layout with 0..MaxUrls
\* listings, and a gallery page whose first anchor has no href.
SearchPages ==
    {[modern |-> [k \in 1..n |-> RelativeHref(k)], gallery |-> <<>>, legacy |-> <<>>] :
        n \in 0..MaxUrls}
    \cup {[modern |-> <<>>,
           gallery |-> <<NoHref, AbsoluteHref("https://seattle.craigslist.org", 9)>>,
           legacy |-> <<RelativeHref(1)>>]}

\* The listing pages a fetch may load: a full posting, and a page with none
\* of the elements.
FullPage ==
    [titletextonly |-> Str(<<"Leica M6">>), postingtitle |-> None,
     price |-> Str(<<"$1">>), postingbody |-> Str(<<"Mint condition">>)]

BlankPage ==
    [titletextonly |-> None, postingtitle |-> None, price |-> None, postingbody |-> None]

ListingPages == {FullPage, BlankPage}

\* str(e) of the requests.RequestException a fetch may raise.
FetchErrors == {<<>>, <<"404 Client Error">>}

\* What the evaluator capability may do during the run.
PipeReplies ==
    { Raises(<<"503 UNAVAILABLE">>),
      Answers(NotJson),
      Answers(JsonDumps(JsonList)),
      Answers(Fenced(JsonTag, Verdict(TRUE, "high", <<"o", "k">>))) }

NotAsked == [kind |-> "none", msg |-> <<>>, text |-> <<>>]

NoEvaluation == [kind |-> "absent"]

\* The external calls the run makes: get_page, time.sleep and
\* evaluator.evaluate, with the caller, the list position and the seconds.
PageEvent(at) ==
    [op |-> "get_page", by |-> "scrape_search_results", at |-> at, secs |-> 0]

SleepEvent(by, at, secs) == [op |-> "sleep", by |-> by, at |-> at, secs |-> secs]

EvalEvent(at) == [op |-> "evaluate", by |-> "scrape_product", at |-> at, secs |-> 0]

\* try branch: the listing dict of a fetched page.
OnFetchSuccess(listings_, listing_url, details) ==
    Append(listings_,
           [url |-> listing_url, title |-> details.title,
            description |-> details.description, price |-> details.price,
            error |-> None, evaluation |-> NoEvaluation])

\* An except branch that only prints the error.
OnFetchError_Drop(listings_, listing_url, e) == listings_

\* except requests.RequestException branch.
OnFetchError(listings_, listing_url, e) ==
    Append(listings_,
           [url |-> listing_url, title |-> None, description |-> None,
            price |-> None, error |-> Str(e), evaluation |-> NoEvaluation])

\* A filter that keeps every listing that has an evaluation.
IsMatch_Evaluated(l) == l.evaluation.kind = "dict"

\* `l.get("evaluation", {}).get("is_match")`
IsMatch(l) == l.evaluation.kind = "dict" /\ l.evaluation.is_match

Init ==
    /\ pc = "main" /\ fault = "none"
    /\ evaluator \in BOOLEAN
    /\ p = 1
    /\ listing_urls = <<>> /\ listings = <<>> /\ i = 0 /\ log = <<>>
    /\ fetch_failed = {} /\ replies = <<>>
    /\ searched = {} /\ search_failed = {}
    /\ results = <<>> /\ r = 0
    /\ total_listings = 0 /\ total_matches = 0 /\ printed = <<>>
    /\ EvalIdle /\ UrlIdle

reportVars == <<r, total_listings, total_matches, printed>>

\* scrape_product calls scrape_search_results, whose get_page of the search
\* URL raises before the call has any listing_urls or listings: nothing
\* between there and main catches the exception.
SearchPageFails ==
    /\ pc = "main" /\ p <= Len(Products)
    /\ searched' = searched \cup {p}
    /\ search_failed' = search_failed \cup {p}
    /\ log' = <<PageEvent(0)>>
    /\ listing_urls' = <<>> /\ listings' = <<>>
    /\ fetch_failed' = {} /\ replies' = <<>>
    /\ i' = 0
    /\ fault' = "RequestException"
    /\ pc' = "crashed"
    /\ UNCHANGED <<evaluator, p, results, reportVars, evalVars, urlVars>>

\* The search page loads and get_listing_urls reads it.
SearchPageLoads ==
    /\ pc = "main" /\ p <= Len(Products)
    /\ \E page \in SearchPages :
          listing_urls' = get_listing_urls(page, build_search_url)
    /\ searched' = searched \cup {p}
    /\ log' = <<PageEvent(0)>>
    /\ listings' = <<>>
    /\ fetch_failed' = {}
    /\ replies' = <<>>
    /\ i' = 1
    /\ pc' = "fetch"
    /\ UNCHANGED <<fault, evaluator, p, search_failed, results, reportVars,
                   evalVars, urlVars>>

\* One pass of the loop over listing_urls whose get_page succeeds.
FetchListingLoads ==
    /\ pc = "fetch" /\ i <= Len(listing_urls)
    /\ \E page \in ListingPages :
          listings' = OnFetchSuccess(listings, listing_urls[i],
                                     get_listing_details(page))
    /\ log' = log \o <<PageEvent(i)>>
                  \o (IF i < Len(listing_urls)
                      THEN <<SleepEvent("scrape_search_results", i, Delay)>>
                      ELSE <<>>)
    /\ i' = i + 1
    /\ UNCHANGED <<pc, fault, evaluator, p, listing_urls, fetch_failed,
                   replies, searched, search_failed, results, reportVars,
                   evalVars, urlVars>>

\* One pass of the loop whose get_page raises requests.RequestException.
FetchListingFails ==
    /\ pc = "fetch" /\ i <= Len(listing_urls)
    /\ \E e \in FetchErrors :
          listings' = OnFetchError(listings, listing_urls[i], e)
    /\ fetch_failed' = fetch_failed \cup {i}
    /\ log' = Append(log, PageEvent(i))
    /\ i' = i + 1
    /\ UNCHANGED <<pc, fault, evaluator, p, listing_urls, replies, searched,
                   search_failed, results, reportVars, evalVars, urlVars>>

\* scrape_search_results returns; scrape_product goes on to `if evaluator:`.
ReturnListings ==
    /\ pc = "fetch" /\ i > Len(listing_urls)
    /\ pc' = IF evaluator THEN "evaluate" ELSE "return"
    /\ i' = 1
    /\ replies' = [k \in 1..Len(listings) |-> NotAsked]
    /\ UNCHANGED <<fault, evaluator, p, listing_urls, listings, log,
                   fetch_failed, searched, search_failed, results, reportVars,
                   evalVars, urlVars>>

\* `if listing.get("error"): continue`
SkipErrorListing ==
    /\ pc = "evaluate" /\ i <= Len(listings)
    /\ Truthy(listings[i].error)
    /\ i' = i + 1
    /\ UNCHANGED <<pc, fault, evaluator, p, listing_urls, listings, log,
                   fetch_failed, replies, searched, search_failed, results,
                   reportVars, evalVars, urlVars>>

\* One pass of the evaluation loop: evaluate, store the evaluation, read its
\* confidence, reason and is_match with .get (AttributeError when it is not a
\* dict), then sleep unless this is the last position of the list.
EvaluateListing ==
    /\ pc = "evaluate" /\ i <= Len(listings)
    /\ ~Truthy(listings[i].error)
    /\ \E reply \in PipeReplies :
          LET out == evaluate(listings[i], reply)
          IN /\ listings' = [listings EXCEPT ![i].evaluation = out.value]
             /\ replies' = [replies EXCEPT ![i] = IF out.calls = 1 THEN reply ELSE NotAsked]
             /\ IF out.value.kind = "dict"
                THEN /\ log' = log \o <<EvalEvent(i)>>
                                   \o (IF i < Len(listings)
                                       THEN <<SleepEvent("scrape_product", i, EvalDelay)>>
                                       ELSE <<>>)
                     /\ i' = i + 1
                     /\ UNCHANGED <<pc, fault>>
                ELSE /\ log' = Append(log, EvalEvent(i))
                     /\ fault' = "AttributeError"
                     /\ pc' = "crashed"
                     /\ UNCHANGED i
    /\ UNCHANGED <<evaluator, p, listing_urls, fetch_failed, searched,
                   search_failed, results, reportVars, evalVars, urlVars>>

\* scrape_product returns its dict and main appends it to results.
AppendResult ==
    /\ \/ pc = "evaluate" /\ i > Len(listings)
       \/ pc = "return"
    /\ results' = Append(results,
                         [product_name |-> Products[p].name,
                          search_term |-> Products[p].search_term,
                          listings |-> listings])
    /\ p' = p + 1
    /\ pc' = "main"
    /\ UNCHANGED <<fault, evaluator, listing_urls, listings, i, log,
                   fetch_failed, replies, searched, search_failed, reportVars,
                   evalVars, urlVars>>

\* main calls print_results(results), which zeroes its totals.
PrintStart ==
    /\ pc = "main" /\ p > Len(Products)
    /\ pc' = "print"
    /\ r' = 1
    /\ total_listings' = 0 /\ total_matches' = 0 /\ printed' = <<>>
    /\ UNCHANGED <<fault, evaluator, p, listing_urls, listings, i, log,
                   fetch_failed, replies, searched, search_failed, results,
                   evalVars, urlVars>>

\* One pass of print_results' loop over results.
PrintProduct ==
    /\ pc = "print" /\ r <= Len(results)
    /\ LET matches == SelectSeq(results[r].listings, IsMatch)
       IN /\ total_listings' = total_listings + Len(results[r].listings)
          /\ total_matches' = total_matches + Len(matches)
          /\ printed' = printed \o
                [k \in 1..Len(matches) |->
                    [product_name |-> results[r].product_name, match |-> matches[k]]]
    /\ r' = r + 1
    /\ UNCHANGED <<pc, fault, evaluator, p, listing_urls, listings, i, log,
                   fetch_failed, replies, searched, search_failed, results,
                   evalVars, urlVars>>

\* The SUMMARY line: the final results report is out.
PrintSummary ==
    /\ pc = "print" /\ r > Len(results)
    /\ pc' = "done"
    /\ UNCHANGED <<fault, evaluator, p, listing_urls, listings, i, log,
                   fetch_failed, replies, searched, search_failed, results,
                   reportVars, evalVars, urlVars>>

Next ==
    \/ SearchPageFails
    \/ SearchPageLoads
    \/ FetchListingLoads
    \/ FetchListingFails
    \/ ReturnListings
    \/ SkipErrorListing
    \/ EvaluateListing
    \/ AppendResult
    \/ PrintStart
    \/ PrintProduct
    \/ PrintSummary

Spec == Init /\ [][Next]_vars

----------------------------------------------------------------------------
(* Claims about the run (under Spec) *)

\* scrape_search_results has returned for the current product.
FetchLoopDone == pc \in {"evaluate", "return"}

\* C1: scrape_search_results builds one record per listing URL, the k-th
\* record carrying the k-th URL; a record has `error` set exactly when its
\* own fetch raised; and when the call returns every URL has been fetched
\* and has its record, whichever fetches failed.
C1_OneRecordPerUrl ==
    /\ Len(listings) = IF pc = "fetch" THEN i - 1 ELSE Len(listing_urls)
    /\ \A k \in 1..Len(listings) :
          /\ listings[k].url = listing_urls[k]
          /\ listings[k].error.some <=> k \in fetch_failed
    /\ FetchLoopDone =>
          \A k \in 1..Len(listing_urls) : \E n \in 1..Len(log) : log[n] = PageEvent(k)

\* The first of two fetches failed and the second still produced a populated
\* record.
C1_Witness ==
    /\ FetchLoopDone
    /\ Len(listing_urls) = 2
    /\ fetch_failed = {1}
    /\ listings[1].error.some
    /\ listings[2].title = Str(<<"Leica M6">>)

\* C2: when the search page fetch fails for one product, the run still
\* searches every other product and ends with the results report.
C2_SearchFailureIsolated ==
    (pc \in {"done", "crashed"} /\ search_failed # {}) =>
        (searched = 1..Len(Products) /\ pc = "done")

\* The verdict an evaluator malfunction must degrade to.
IsDegraded(e) ==
    /\ e.kind = "dict"
    /\ e.is_match = FALSE
    /\ e.confidence = "low"
    /\ StartsWith(e.reason, EvaluationErrorPrefix)

\* C3: whatever the evaluator capability answers, the listing gets a verdict
\* (a dict) and no fault leaves scrape_product; an invocation error and a
\* text that is not JSON give the degraded verdict.
C3_EvaluatorFaultContained ==
    /\ fault # "AttributeError"
    /\ \A k \in 1..Len(replies) :
          replies[k] # NotAsked =>
              /\ listings[k].evaluation.kind = "dict"
              /\ replies[k] \in {Raises(<<"503 UNAVAILABLE">>), Answers(NotJson)}
                    => IsDegraded(listings[k].evaluation)

\* C5: a listing whose fetch failed, whatever the message, has no title,
\* description or price and never has an evaluation; an evaluation is only
\* on listings whose fetch succeeded, and only once the evaluation loop runs.
C5_FailedFetchNeverEvaluated ==
    \A k \in 1..Len(listings) :
        /\ k \in fetch_failed =>
              /\ listings[k].title = None
              /\ listings[k].description = None
              /\ listings[k].price = None
              /\ listings[k].evaluation = NoEvaluation
        /\ listings[k].evaluation # NoEvaluation =>
              (k \notin fetch_failed /\ pc # "fetch")

\* The listing fetches and the sleeps of scrape_search_results, in order.
FetchLog ==
    SelectSeq(log, LAMBDA e : e.by = "scrape_search_results" /\ e # PageEvent(0))

\* C6: with N listing URLs the fetch loop makes N fetches and N-1 sleeps of
\* `delay` seconds, one strictly between fetch k and fetch k+1 whether fetch
\* k succeeded or failed, and none after the last fetch.
C6_SleepBetweenFetches ==
    FetchLoopDone =>
        /\ Len(FetchLog) = IF listing_urls = <<>> THEN 0 ELSE 2 * Len(listing_urls) - 1
        /\ \A n \in 1..Len(FetchLog) :
              FetchLog[n] = IF n % 2 = 1
                            THEN PageEvent((n + 1) \div 2)
                            ELSE SleepEvent("scrape_search_results", n \div 2, Delay)

\* The evaluate calls and the sleeps of scrape_product's loop, in order.
EvalLog == SelectSeq(log, LAMBDA e : e.by = "scrape_product")

\* C7: when the evaluation loop ends, one 2-second sleep lies between every
\* two consecutive evaluate calls and none follows the last call, also when
\* the listings after it are error-tagged and skipped.
C7_SleepBetweenEvaluations ==
    (pc = "evaluate" /\ i > Len(listings)) =>
        /\ EvalLog # <<>> => Len(EvalLog) % 2 = 1
        /\ \A n \in 1..Len(EvalLog) :
              IF n % 2 = 1
              THEN EvalLog[n].op = "evaluate"
              ELSE EvalLog[n].op = "sleep" /\ EvalLog[n].secs = EvalDelay

\* The (product, listing) positions of results, and those that are matches.
AllPositions ==
    UNION {{<<k, j>> : j \in 1..Len(results[k].listings)} : k \in 1..Len(results)}

MatchPositions ==
    {pos \in AllPositions :
        LET e == results[pos[1]].listings[pos[2]].evaluation
        IN e.kind = "dict" /\ e.is_match = TRUE}

Before(a, b) == a[1] < b[1] \/ (a[1] = b[1] /\ a[2] < b[2])

\* The n-th match in product order, then listing order.
NthMatch(n) ==
    CHOOSE pos \in MatchPositions :
        Cardinality({q \in MatchPositions : Before(q, pos)}) = n - 1

\* C10: in the final report total_listings counts every listing record of
\* every product, total_matches counts the listings whose evaluation has
\* is_match true, and the matches are printed in product order and, within
\* a product, in listing order; no error-tagged and no unevaluated listing is
\* among them.  The summary is thus fixed by the results alone: summarizing
\* the same results again gives the same summary.
C10_SummaryCounts ==
    pc = "done" =>
        /\ total_listings = Cardinality(AllPositions)
        /\ total_matches = Cardinality(MatchPositions)
        /\ Len(printed) = total_matches
        /\ \A n \in 1..Len(printed) :
              LET pos == NthMatch(n)
              IN /\ printed[n].product_name = results[pos[1]].product_name
                 /\ printed[n].match = results[pos[1]].listings[pos[2]]
                 /\ ~printed[n].match.error.some
                 /\ printed[n].match.evaluation # NoEvaluation

\* Product A gave two listings, one a match, and product B gave none.
C10_Witness ==
    /\ pc = "done"
    /\ Len(results[1].listings) = 2
    /\ results[2].listings = <<>>
    /\ total_listings = 2
    /\ total_matches = 1
    /\ printed[1].match = results[1].listings[2]

----------------------------------------------------------------------------
(* Claims about evaluate (under SpecEvaluate) *)

Returned == ev_out # NotCalled

ShortCircuitVerdict == Verdict(FALSE, "high", NoTextReason)

\* C4, as stated: a listing whose title and description are both absent gets
\* the fixed high-confidence "no match" verdict with no call to the
\* evaluator capability, and a listing with a title or a description present
\* (not None) costs exactly one call.
C4_CallIffPresent ==
    Returned =>
        /\ (~ev_listing.title.some /\ ~ev_listing.description.some)
              => (ev_out.value = ShortCircuitVerdict /\ ev_out.calls = 0)
        /\ (ev_listing.title.some \/ ev_listing.description.some)
              => ev_out.calls = 1

\* C4, amended: a listing whose title and description are both absent or
\* empty gets the fixed high-confidence "no match" verdict with no call to
\* the evaluator capability; a listing with a non-empty title or a non-empty
\* description costs exactly one call.
C4_CallIffNonEmpty ==
    Returned =>
        LET blank(x) == ~x.some \/ x.text = <<>>
        IN IF blank(ev_listing.title) /\ blank(ev_listing.description)
           THEN ev_out.value = ShortCircuitVerdict /\ ev_out.calls = 0
           ELSE ev_out.calls = 1 /\ ev_out.value # ShortCircuitVerdict

\* An empty title with no description was evaluated without a call.
C4_Witness ==
    /\ Returned
    /\ ev_listing.title = Str(<<>>)
    /\ ev_listing.description = None
    /\ ev_out.calls = 0
    /\ ev_out.value = ShortCircuitVerdict

\* C9: for a reply made of an opening fence, an optional language tag, the
\* document of a verdict and a closing fence, evaluate returns exactly that
\* verdict, and it returns the same verdict for the unfenced document.
C9_FencedVerdictParsed ==
    (Returned /\ ev_out.calls = 1) =>
        \A v \in Verdicts :
            /\ (\E tag \in LanguageTags : ev_reply = Answers(Fenced(tag, v)))
                  => ev_out.value = v
            /\ ev_reply = Answers(JsonDumps(v)) => ev_out.value = v

----------------------------------------------------------------------------
(* Claims about get_listing_urls (under SpecListingUrls) *)

\* The URLs one layout's anchors yield.
YieldOf(links) == AppendHrefs(<<>>, links, build_search_url)

\* C8: the result is that of the first strategy, in the order modern,
\* gallery, legacy, that yields at least one URL (an earlier layout whose
\* anchors carry no href falls through), and the empty sequence when none
\* does; URLs of two strategies are never merged.
C8_FirstYieldingStrategy ==
    urls.done =>
        urls.value =
            IF YieldOf(soup.modern) # <<>> THEN YieldOf(soup.modern)
            ELSE IF YieldOf(soup.gallery) # <<>> THEN YieldOf(soup.gallery)
            ELSE IF YieldOf(soup.legacy) # <<>> THEN YieldOf(soup.legacy)
            ELSE <<>>

============================================================================
